---- MODULE Spec2Model ----
(***************************************************************************)
(* Turn planner of the Teams bot: lazy construction of the LangGraph       *)
(* agent, the per-turn history mutation, the chat call and the plan that   *)
(* is dispatched to the SAY handler or to the global error handler.        *)
(*                                                                         *)
(* Spec      non-overlapping turns on one planner over keyed conversations *)
(* SpecChat  SimpleLangGraphAgent.chat as a function of its arguments      *)
(***************************************************************************)
EXTENDS Integers, Sequences, FiniteSets, TLC

\* ---------------------------------------------------------------- bounds
MaxTurns == 3
MaxHist == 2

\* ------------------------------------------------------------ value sets
None == "<None>"
Raise == "<raise>"
\* planner.agent before the first construction (self.agent = None)
NoAgent == [is_none |-> TRUE]
\* a conversation key the storage holds nothing for
NoRecord == [is_none |-> TRUE]

\* context.activity.text of a message activity
Texts == {"hi", "bye"}
\* content of the AIMessage the model returns
Replies == {"r1", "r2"}
\* output of template.prompt.render_as_text
Prompts == {"", "tools"}
\* conversation identity the storage is keyed by
ConvKeys == {"c1", "c2"}
Roles == {"system", "user", "assistant", "tool"}

ApologyText == "I apologize, but I encountered an error while processing your request. Please try again."
ErrorNotice == "The bot encountered an error or bug."
DefaultSystemPrompt == "You are a helpful AI assistant powered by Azure OpenAI and LangGraph."

\* ------------------------------------------------------------- messages
Message(role, content) ==
    [role |-> role, content |-> content, tool_calls |-> None, tool_call_id |-> None]

HumanMessage(content) == [type |-> "human", content |-> content]
AIMessage(content) == [type |-> "ai", content |-> content]
SystemMessage(content) == [type |-> "system", content |-> content]

\* to_langchain, lines 67-76: the external variant of each role
LangChainType(role) ==
    CASE role = "system"    -> "system"
      [] role = "user"      -> "human"
      [] role = "assistant" -> "ai"
      [] role = "tool"      -> "tool"

PredictedSayCommand(response) == [type |-> "SAY", response |-> response]

\* ------------------------------------------------------------ variables
VARIABLES
    agent,       \* planner.agent: NoAgent or the SimpleLangGraphAgent
    storage,     \* storage: conversation key -> stored conversation state or NoRecord
    turns,       \* turns processed so far
    render_calls,     \* calls of render_as_text on this planner
    construct_calls,  \* calls of SimpleLangGraphAgent(...) on this planner
    agents_built,     \* assignments of a new agent to planner.agent
    init_failures,    \* turns on this planner whose initialization raised
    asked,       \* message lists handed to the graph so far
    last,        \* record of the last turn processed
    chat_in,     \* SpecChat: the arguments of chat
    chat_out,    \* SpecChat: what chat did with them
    transcript,  \* conversation key -> the turns that reached generation, in order
    call,        \* SpecBridge, SpecLoad: a function call, its argument and result
    tasks        \* SpecConc: the position and locals of each overlapping turn

vars == <<agent, storage, turns, render_calls, construct_calls, agents_built,
          init_failures, asked, last, chat_in, chat_out, transcript, call, tasks>>

\* ------------------------------------------------- conversation state
\* AppConversationState: the class defaults of lights_on and history
DefaultConversationState == [lights_on |-> FALSE, history |-> <<>>]

\* Variant of AppConversationState.load in which the conversations without
\* a stored history share one default list, which holds what another
\* conversation has put into it
LoadConversationState_shared_default(store, key) ==
    LET others == {k \in DOMAIN store : k # key /\ "history" \in DOMAIN store[k]}
    IN  [f \in DOMAIN DefaultConversationState |->
            IF f \in DOMAIN store[key] THEN store[key][f]
            ELSE IF f = "history" /\ others # {}
            THEN store[CHOOSE k \in others : TRUE].history
            ELSE DefaultConversationState[f]]

\* Variant of AppConversationState.load that takes the defaults for every
\* field unless the stored record has them all
LoadConversationState_all_or_nothing(store, key) ==
    IF DOMAIN DefaultConversationState \subseteq DOMAIN store[key]
    THEN [f \in DOMAIN DefaultConversationState |-> store[key][f]]
    ELSE DefaultConversationState

\* AppConversationState.load: cls(**state) on what is stored under the key,
\* so each field has its stored value when the record has one and the class
\* default otherwise; nothing stored leaves the defaults
LoadConversationState(store, key) ==
    [f \in DOMAIN DefaultConversationState |->
        IF f \in DOMAIN store[key] THEN store[key][f]
        ELSE DefaultConversationState[f]]

\* --------------------------------------------------------------- agent
\* SimpleLangGraphAgent.__init__: system_prompt or the built-in instruction
SimpleLangGraphAgent(system_prompt) ==
    [system_prompt |-> IF system_prompt = "" \/ system_prompt = None
                       THEN DefaultSystemPrompt ELSE system_prompt]

\* What the prompt factory, the renderer and the agent constructor do in a turn
InitEnv ==
    {[factory_ok |-> FALSE, render |-> Raise, construct_ok |-> FALSE]}
    \cup {[factory_ok |-> TRUE, render |-> Raise, construct_ok |-> FALSE]}
    \cup [factory_ok : {TRUE}, render : Prompts, construct_ok : BOOLEAN]
\* What llm.ainvoke does in a turn: the reply content, or it raises
LlmEnv == Replies \cup {Raise}
\* The three collaborators of the initialization all answer
InitSucceeds(io) == io.factory_ok /\ io.render # Raise /\ io.construct_ok

\* The collaborators' answers to the calls one turn makes: those of the
\* initialization are drawn while there is no agent (no such call is made once
\* there is one), that of the model only when initialization lets the turn
\* reach it
TurnEnv(ag) ==
    IF ag = NoAgent
    THEN {[io |-> i, llm |-> Raise] : i \in {e \in InitEnv : ~e.construct_ok}}
         \cup {[io |-> i, llm |-> l] : i \in {e \in InitEnv : e.construct_ok}, l \in LlmEnv}
    ELSE {[io |-> [factory_ok |-> TRUE, render |-> "tools", construct_ok |-> TRUE],
           llm |-> l] : l \in LlmEnv}

\* Variant of _chat_node that puts the system message first on every call
chat_node_always_system(ag, messages, llm) ==
    [model_input |-> <<SystemMessage(ag.system_prompt)>> \o messages,
     calls       |-> 1,
     raised      |-> llm = Raise,
     response    |-> IF llm = Raise THEN AIMessage(None) ELSE AIMessage(llm)]

\* Variant of _chat_node that answers a message list it has seen from a cache
\* and calls the model a second time when the first call raises
chat_node_cached_retry(ag, messages, llm) ==
    LET model_input ==
            IF Len(messages) = 1 /\ messages[1].type = "human"
            THEN <<SystemMessage(ag.system_prompt)>> \o messages
            ELSE messages
    IN  [model_input |-> model_input,
         calls       |-> IF messages \in asked THEN 0
                         ELSE IF llm = Raise THEN 2 ELSE 1,
         raised      |-> llm = Raise,
         response    |-> IF llm = Raise THEN AIMessage(None) ELSE AIMessage(llm)]

\* _chat_node: the system message is put first only when the graph input is a
\* single human message; then one llm.ainvoke
chat_node(ag, messages, llm) ==
    LET model_input ==
            IF Len(messages) = 1 /\ messages[1].type = "human"
            THEN <<SystemMessage(ag.system_prompt)>> \o messages
            ELSE messages
    IN  [model_input |-> model_input,
         calls       |-> 1,
         raised      |-> llm = Raise,
         response    |-> IF llm = Raise THEN AIMessage(None) ELSE AIMessage(llm)]

\* chat, lines 92-102: user and assistant entries become Human/AI messages,
\* entries of any other role are skipped
ConvertHistory(conversation_history) ==
    LET kept == SelectSeq(conversation_history,
                          LAMBDA m : m.role \in {"user", "assistant"})
    IN  [i \in 1..Len(kept) |->
            IF kept[i].role = "user" THEN HumanMessage(kept[i].content)
                                     ELSE AIMessage(kept[i].content)]

\* chat: convert the history, append the new human message, run the graph,
\* return the content of the last message
chat(ag, message, conversation_history, llm) ==
    LET messages == ConvertHistory(conversation_history) \o <<HumanMessage(message)>>
        Result(node) ==
            [messages    |-> messages,
             model_input |-> node.model_input,
             calls       |-> node.calls,
             raised      |-> node.raised,
             result      |-> IF node.raised THEN None ELSE node.response.content]
    IN  Result(chat_node(ag, messages, llm))

\* ------------------------------------------------------------- planner
\* Variant of _ensure_agent_initialized without the "agent is None" test
ensure_agent_initialized_unguarded(ag, io) ==
    IF ~io.factory_ok
    THEN [agent |-> ag, raised |-> TRUE, loads |-> 1, renders |-> 0,
          constructs |-> 0, built |-> 0]
    ELSE IF io.render = Raise
    THEN [agent |-> ag, raised |-> TRUE, loads |-> 1, renders |-> 1,
          constructs |-> 0, built |-> 0]
    ELSE IF ~io.construct_ok
    THEN [agent |-> ag, raised |-> TRUE, loads |-> 1, renders |-> 1,
          constructs |-> 1, built |-> 0]
    ELSE [agent |-> SimpleLangGraphAgent(io.render), raised |-> FALSE,
          loads |-> 1, renders |-> 1, constructs |-> 1, built |-> 1]

\* Variant of _ensure_agent_initialized that keeps the agent object when its
\* construction raises after the prompt was rendered
ensure_agent_initialized_keeps_failed(ag, io) ==
    IF ag # NoAgent
    THEN [agent |-> ag, raised |-> FALSE, loads |-> 0, renders |-> 0,
          constructs |-> 0, built |-> 0]
    ELSE IF ~io.factory_ok
    THEN [agent |-> NoAgent, raised |-> TRUE, loads |-> 1, renders |-> 0,
          constructs |-> 0, built |-> 0]
    ELSE IF io.render = Raise
    THEN [agent |-> NoAgent, raised |-> TRUE, loads |-> 1, renders |-> 1,
          constructs |-> 0, built |-> 0]
    ELSE IF ~io.construct_ok
    THEN [agent |-> SimpleLangGraphAgent(io.render), raised |-> TRUE,
          loads |-> 1, renders |-> 1, constructs |-> 1, built |-> 1]
    ELSE [agent |-> SimpleLangGraphAgent(io.render), raised |-> FALSE,
          loads |-> 1, renders |-> 1, constructs |-> 1, built |-> 1]

\* _ensure_agent_initialized: nothing when the agent exists; else load the
\* template, render it, construct the agent and only then assign it
ensure_agent_initialized(ag, io) ==
    IF ag # NoAgent
    THEN [agent |-> ag, raised |-> FALSE, loads |-> 0, renders |-> 0,
          constructs |-> 0, built |-> 0]
    ELSE IF ~io.factory_ok
    THEN [agent |-> NoAgent, raised |-> TRUE, loads |-> 1, renders |-> 0,
          constructs |-> 0, built |-> 0]
    ELSE IF io.render = Raise
    THEN [agent |-> NoAgent, raised |-> TRUE, loads |-> 1, renders |-> 1,
          constructs |-> 0, built |-> 0]
    ELSE IF ~io.construct_ok
    THEN [agent |-> NoAgent, raised |-> TRUE, loads |-> 1, renders |-> 1,
          constructs |-> 1, built |-> 0]
    ELSE [agent |-> SimpleLangGraphAgent(io.render), raised |-> FALSE,
          loads |-> 1, renders |-> 1, constructs |-> 1, built |-> 1]

\* No chat call was made
NoChat == [messages |-> <<>>, model_input |-> <<>>, calls |-> 0,
           raised |-> FALSE, result |-> None]

\* Variant of _generate_response that forgets to append the reply
generate_response_no_reply_append(ag, history, user_message, llm) ==
    LET conversation_history ==
            IF Len(history) > 0 THEN SubSeq(history, 1, Len(history) - 1) ELSE <<>>
        Respond(c) ==
            IF ~c.raised
            THEN [plan    |-> <<PredictedSayCommand(Message("assistant", c.result))>>,
                  history |-> history,
                  gen     |-> "ok",
                  chat    |-> c]
            ELSE [plan    |-> <<PredictedSayCommand(Message("assistant", ApologyText))>>,
                  history |-> history,
                  gen     |-> "fail",
                  chat    |-> c]
    IN  Respond(chat(ag, user_message, conversation_history, llm))

\* Variant of _generate_response that appends the apology to the history
generate_response_apology_appended(ag, history, user_message, llm) ==
    LET conversation_history ==
            IF Len(history) > 0 THEN SubSeq(history, 1, Len(history) - 1) ELSE <<>>
        Respond(c) ==
            IF ~c.raised
            THEN [plan    |-> <<PredictedSayCommand(Message("assistant", c.result))>>,
                  history |-> Append(history, Message("assistant", c.result)),
                  gen     |-> "ok",
                  chat    |-> c]
            ELSE [plan    |-> <<PredictedSayCommand(Message("assistant", ApologyText))>>,
                  history |-> Append(history, Message("assistant", ApologyText)),
                  gen     |-> "fail",
                  chat    |-> c]
    IN  Respond(chat(ag, user_message, conversation_history, llm))

\* Variant of _generate_response whose except branch returns an empty plan
generate_response_empty_plan(ag, history, user_message, llm) ==
    LET conversation_history ==
            IF Len(history) > 0 THEN SubSeq(history, 1, Len(history) - 1) ELSE <<>>
        Respond(c) ==
            IF ~c.raised
            THEN [plan    |-> <<PredictedSayCommand(Message("assistant", c.result))>>,
                  history |-> Append(history, Message("assistant", c.result)),
                  gen     |-> "ok",
                  chat    |-> c]
            ELSE [plan    |-> <<>>,
                  history |-> history,
                  gen     |-> "fail",
                  chat    |-> c]
    IN  Respond(chat(ag, user_message, conversation_history, llm))

\* Variant of _generate_response whose except branch takes the user message
\* of the failed turn out of the history again
generate_response_forgets_failed_user(ag, history, user_message, llm) ==
    LET conversation_history ==
            IF Len(history) > 0 THEN SubSeq(history, 1, Len(history) - 1) ELSE <<>>
        Respond(c) ==
            IF ~c.raised
            THEN [plan    |-> <<PredictedSayCommand(Message("assistant", c.result))>>,
                  history |-> Append(history, Message("assistant", c.result)),
                  gen     |-> "ok",
                  chat    |-> c]
            ELSE [plan    |-> <<PredictedSayCommand(Message("assistant", ApologyText))>>,
                  history |-> conversation_history,
                  gen     |-> "fail",
                  chat    |-> c]
    IN  Respond(chat(ag, user_message, conversation_history, llm))

\* Variant of _generate_response that puts the reply at the head of the history
generate_response_reply_first(ag, history, user_message, llm) ==
    LET conversation_history ==
            IF Len(history) > 0 THEN SubSeq(history, 1, Len(history) - 1) ELSE <<>>
        Respond(c) ==
            IF ~c.raised
            THEN [plan    |-> <<PredictedSayCommand(Message("assistant", c.result))>>,
                  history |-> <<Message("assistant", c.result)>> \o history,
                  gen     |-> "ok",
                  chat    |-> c]
            ELSE [plan    |-> <<PredictedSayCommand(Message("assistant", ApologyText))>>,
                  history |-> history,
                  gen     |-> "fail",
                  chat    |-> c]
    IN  Respond(chat(ag, user_message, conversation_history, llm))

\* _generate_response: history is the one that already ends with the user
\* message of this turn
generate_response(ag, history, user_message, llm) ==
    LET conversation_history ==
            IF Len(history) > 0 THEN SubSeq(history, 1, Len(history) - 1) ELSE <<>>
        Respond(c) ==
            IF ~c.raised
            THEN [plan    |-> <<PredictedSayCommand(Message("assistant", c.result))>>,
                  history |-> Append(history, Message("assistant", c.result)),
                  gen     |-> "ok",
                  chat    |-> c]
            ELSE [plan    |-> <<PredictedSayCommand(Message("assistant", ApologyText))>>,
                  history |-> history,
                  gen     |-> "fail",
                  chat    |-> c]
    IN  Respond(chat(ag, user_message, conversation_history, llm))

\* Variant of begin_task that appends the user message before it initializes
begin_task_append_before_init(ag, history, text, io, llm) ==
    LET Generated(init, g) ==
            [agent |-> init.agent, raised |-> FALSE, plan |-> g.plan,
             history |-> g.history, gen |-> g.gen, chat |-> g.chat, init |-> init]
        Initialized(init) ==
            IF init.raised
            THEN [agent |-> init.agent, raised |-> TRUE, plan |-> <<>>,
                  history |-> Append(history, Message("user", text)),
                  gen |-> "none", chat |-> NoChat, init |-> init]
            ELSE Generated(init,
                           generate_response(init.agent,
                                             Append(history, Message("user", text)),
                                             text, llm))
    IN  Initialized(ensure_agent_initialized(ag, io))

\* Variant of begin_task that does not append the user message
begin_task_no_user_append(ag, history, text, io, llm) ==
    LET Generated(init, g) ==
            [agent |-> init.agent, raised |-> FALSE, plan |-> g.plan,
             history |-> g.history, gen |-> g.gen, chat |-> g.chat, init |-> init]
        Initialized(init) ==
            IF init.raised
            THEN [agent |-> init.agent, raised |-> TRUE, plan |-> <<>>,
                  history |-> history, gen |-> "none", chat |-> NoChat, init |-> init]
            ELSE Generated(init, generate_response(init.agent, history, text, llm))
    IN  Initialized(ensure_agent_initialized(ag, io))

\* Variant of begin_task that starts the task on a fresh history
begin_task_fresh_history(ag, history, text, io, llm) ==
    LET Generated(init, g) ==
            [agent |-> init.agent, raised |-> FALSE, plan |-> g.plan,
             history |-> g.history, gen |-> g.gen, chat |-> g.chat, init |-> init]
        Initialized(init) ==
            IF init.raised
            THEN [agent |-> init.agent, raised |-> TRUE, plan |-> <<>>,
                  history |-> history, gen |-> "none", chat |-> NoChat, init |-> init]
            ELSE Generated(init,
                           generate_response(init.agent,
                                             <<Message("user", text)>>,
                                             text, llm))
    IN  Initialized(ensure_agent_initialized(ag, io))

\* begin_task
begin_task(ag, history, text, io, llm) ==
    LET Generated(init, g) ==
            [agent |-> init.agent, raised |-> FALSE, plan |-> g.plan,
             history |-> g.history, gen |-> g.gen, chat |-> g.chat, init |-> init]
        Initialized(init) ==
            IF init.raised
            THEN [agent |-> init.agent, raised |-> TRUE, plan |-> <<>>,
                  history |-> history, gen |-> "none", chat |-> NoChat, init |-> init]
            ELSE Generated(init,
                           generate_response(init.agent,
                                             Append(history, Message("user", text)),
                                             text, llm))
    IN  Initialized(ensure_agent_initialized(ag, io))

\* Variant of continue_task that does not append the user message
continue_task_no_user_append(ag, history, text, io, llm) ==
    LET Generated(init, g) ==
            [agent |-> init.agent, raised |-> FALSE, plan |-> g.plan,
             history |-> g.history, gen |-> g.gen, chat |-> g.chat, init |-> init]
        Initialized(init) ==
            IF init.raised
            THEN [agent |-> init.agent, raised |-> TRUE, plan |-> <<>>,
                  history |-> history, gen |-> "none", chat |-> NoChat, init |-> init]
            ELSE Generated(init, generate_response(init.agent, history, text, llm))
    IN  Initialized(ensure_agent_initialized(ag, io))

\* continue_task
continue_task(ag, history, text, io, llm) ==
    LET Generated(init, g) ==
            [agent |-> init.agent, raised |-> FALSE, plan |-> g.plan,
             history |-> g.history, gen |-> g.gen, chat |-> g.chat, init |-> init]
        Initialized(init) ==
            IF init.raised
            THEN [agent |-> init.agent, raised |-> TRUE, plan |-> <<>>,
                  history |-> history, gen |-> "none", chat |-> NoChat, init |-> init]
            ELSE Generated(init,
                           generate_response(init.agent,
                                             Append(history, Message("user", text)),
                                             text, llm))
    IN  Initialized(ensure_agent_initialized(ag, io))

\* ------------------------------------------------------------ handlers
\* Variant of on_say that sends nothing
on_say_silent(command) == <<>>

\* on_say: the activity sent for one SAY command
on_say(command) == <<command.response.content>>

\* on_error: the activity sent by the global error handler
on_error == <<ErrorNotice>>

RECURSIVE RunCommands(_)
\* The registered SAY action is run for each command of the plan, in order
RunCommands(plan) ==
    IF plan = <<>> THEN <<>>
    ELSE on_say(Head(plan)) \o RunCommands(Tail(plan))

\* What the end user is sent for a planner call: the plan's commands go to
\* on_say, an error that escapes the planner goes to on_error
Dispatch(r) == IF r.raised THEN on_error ELSE RunCommands(r.plan)

\* ----------------------------------------------------- turn processing
\* No turn has been processed
NoTurn == [op |-> "none", conv |-> None, text |-> None, llm |-> None,
           reached |-> FALSE,
           agent_pre |-> NoAgent, pre |-> <<>>, post |-> <<>>,
           raised |-> FALSE, plan |-> <<>>, gen |-> "none", chat |-> NoChat,
           loads |-> 0, renders |-> 0, constructs |-> 0, repeated |-> FALSE,
           sent |-> <<>>]

\* SpecChat is not running
NoChatCall == [message |-> None, history |-> <<>>, ag |-> NoAgent]
NoChatResult == [called |-> FALSE, llm |-> None, out |-> NoChat]

\* One turn: the turn state is loaded for the conversation key, the planner
\* operation runs on it and the result is dispatched. The record holds the
\* planner's result with the state it was given and what the user is sent.
ProcessTurn(op, key, text, io, llm) ==
    LET state == LoadConversationState(storage, key)
        Dispatched(r) == [state |-> state, r |-> r, sent |-> Dispatch(r)]
    IN  Dispatched(IF op = "begin_task"
                   THEN begin_task(agent, state.history, text, io, llm)
                   ELSE continue_task(agent, state.history, text, io, llm))

\* The record of a processed turn
TurnRecord(op, key, text, env, t) ==
    [op |-> op, conv |-> key, text |-> text, llm |-> env.llm,
     reached |-> agent # NoAgent \/ InitSucceeds(env.io),
     agent_pre |-> agent, pre |-> t.state.history, post |-> t.r.history,
     raised |-> t.r.raised, plan |-> t.r.plan, gen |-> t.r.gen,
     chat |-> t.r.chat, loads |-> t.r.init.loads, renders |-> t.r.init.renders,
     constructs |-> t.r.init.constructs,
     repeated |-> t.r.gen # "none" /\ t.r.chat.messages \in asked,
     sent |-> t.sent]

\* The conversation state is stored when the planner returned a plan
SaveConversationState(key, t) ==
    IF t.r.raised THEN storage
    ELSE [storage EXCEPT ![key] = [t.state EXCEPT !.history = t.r.history]]

\* The turns of a conversation that reached generation, in the order they
\* were processed, each with its text and the model's outcome
Transcribe(key, text, llm, t) ==
    IF t.r.gen = "none" THEN transcript
    ELSE [transcript EXCEPT ![key] = Append(@, [text |-> text, llm |-> llm])]

\* No function call is being checked
NoCall == [fn |-> "none", done |-> FALSE]

\* No overlapping turns are running
NoTasks == <<>>

\* A turn the application routes to planner.begin_task
BeginTask ==
    \E key \in ConvKeys, text \in Texts, env \in TurnEnv(agent) :
      \E t \in {ProcessTurn("begin_task", key, text, env.io, env.llm)} :
        /\ turns < MaxTurns
        /\ turns' = turns + 1
        /\ agent' = t.r.agent
        /\ storage' = SaveConversationState(key, t)
        /\ render_calls' = render_calls + t.r.init.renders
        /\ construct_calls' = construct_calls + t.r.init.constructs
        /\ agents_built' = agents_built + t.r.init.built
        /\ init_failures' = init_failures + (IF t.r.raised THEN 1 ELSE 0)
        /\ asked' = IF t.r.gen # "none" THEN asked \cup {t.r.chat.messages} ELSE asked
        /\ last' = TurnRecord("begin_task", key, text, env, t)
        /\ transcript' = Transcribe(key, text, env.llm, t)
        /\ UNCHANGED <<chat_in, chat_out, call, tasks>>

\* A turn the application routes to planner.continue_task
ContinueTask ==
    \E key \in ConvKeys, text \in Texts, env \in TurnEnv(agent) :
      \E t \in {ProcessTurn("continue_task", key, text, env.io, env.llm)} :
        /\ turns < MaxTurns
        /\ turns' = turns + 1
        /\ agent' = t.r.agent
        /\ storage' = SaveConversationState(key, t)
        /\ render_calls' = render_calls + t.r.init.renders
        /\ construct_calls' = construct_calls + t.r.init.constructs
        /\ agents_built' = agents_built + t.r.init.built
        /\ init_failures' = init_failures + (IF t.r.raised THEN 1 ELSE 0)
        /\ asked' = IF t.r.gen # "none" THEN asked \cup {t.r.chat.messages} ELSE asked
        /\ last' = TurnRecord("continue_task", key, text, env, t)
        /\ transcript' = Transcribe(key, text, env.llm, t)
        /\ UNCHANGED <<chat_in, chat_out, call, tasks>>

Init ==
    /\ agent = NoAgent
    /\ storage = [key \in ConvKeys |-> NoRecord]
    /\ turns = 0
    /\ render_calls = 0
    /\ construct_calls = 0
    /\ agents_built = 0
    /\ init_failures = 0
    /\ asked = {}
    /\ last = NoTurn
    /\ chat_in = NoChatCall
    /\ chat_out = NoChatResult
    /\ transcript = [key \in ConvKeys |-> <<>>]
    /\ call = NoCall
    /\ tasks = NoTasks

Next == BeginTask \/ ContinueTask

Spec == Init /\ [][Next]_vars

\* ------------------------------------------------- chat as a function
\* Sequences over S of length at most n
RECURSIVE SeqsUpTo(_, _)
SeqsUpTo(S, n) ==
    IF n = 0 THEN {<<>>}
    ELSE SeqsUpTo(S, n - 1)
         \cup {Append(q, x) : q \in {p \in SeqsUpTo(S, n - 1) : Len(p) = n - 1}, x \in S}

\* Messages a conversation_history argument may hold: any of the four roles
HistoryMessages == {Message(role, content) : role \in Roles, content \in {"hi", "r1"}}

InitChat ==
    /\ agent = NoAgent
    /\ storage = [key \in ConvKeys |-> NoRecord]
    /\ turns = 0
    /\ render_calls = 0
    /\ construct_calls = 0
    /\ agents_built = 0
    /\ init_failures = 0
    /\ asked = {}
    /\ last = NoTurn
    /\ chat_in \in [message : Texts,
                    history : SeqsUpTo(HistoryMessages, MaxHist),
                    ag      : {SimpleLangGraphAgent(p) : p \in Prompts}]
    /\ chat_out = NoChatResult
    /\ transcript = [key \in ConvKeys |-> <<>>]
    /\ call = NoCall
    /\ tasks = NoTasks

\* agent.chat(message, conversation_history) is called once on the arguments
ChatCall ==
    /\ ~chat_out.called
    /\ \E llm \in LlmEnv :
          chat_out' = [called |-> TRUE, llm |-> llm,
                       out |-> chat(chat_in.ag, chat_in.message, chat_in.history, llm)]
    /\ UNCHANGED <<agent, storage, turns, render_calls, construct_calls,
                   agents_built, init_failures, asked, last, chat_in,
                   transcript, call, tasks>>

NextChat == ChatCall

SpecChat == InitChat /\ [][NextChat]_vars

\* ------------------------------------------------- the message bridge
\* Values of Message.tool_calls that are lists, and of Message.tool_call_id
\* that are strings
ToolCallLists == {"[]", "[call]"}
ToolCallIds == {"id1"}

\* A message content that is not a string (a list of content blocks)
ContentBlocks == "<blocks>"

\* What a conversion returns or raises
Returned(value) == [raised |-> "", value |-> value]
Raised(error) == [raised |-> error, value |-> NoRecord]

\* The errors of the two conversions, and the one of the message classes
InvalidRole == "invalid message role"
InvalidType == "invalid message type"
ValidationError == "ValidationError"

\* AIMessage(content, tool_calls=...): the class declares tool_calls as a
\* list; given None it either rejects the value or falls back to the empty
\* list, never keeps None
AIMessageToolCalls(content, tool_calls, lenient) ==
    IF tool_calls # None
    THEN Returned([type |-> "ai", content |-> content, tool_calls |-> tool_calls])
    ELSE IF lenient
    THEN Returned([type |-> "ai", content |-> content, tool_calls |-> "[]"])
    ELSE Raised(ValidationError)

\* ToolMessage(content, tool_call_id=...): the class requires a string id
ToolMessage(content, tool_call_id) ==
    IF tool_call_id # None
    THEN Returned([type |-> "tool", content |-> content,
                   tool_call_id |-> tool_call_id])
    ELSE Raised(ValidationError)

\* Message.to_langchain
to_langchain(m, lenient) ==
    LET content == IF m.content # None THEN m.content ELSE ""
    IN  CASE m.role = "system"    -> Returned(SystemMessage(content))
          [] m.role = "user"      -> Returned(HumanMessage(content))
          [] m.role = "assistant" -> AIMessageToolCalls(content, m.tool_calls, lenient)
          [] m.role = "tool"      -> ToolMessage(content, m.tool_call_id)
          [] OTHER                -> Raised(InvalidRole)

\* Variant of from_langchain that keeps a content that is not a string
from_langchain_keeps_blocks(message) ==
    CASE message.type = "system" ->
             Returned(Message("system", message.content))
      [] message.type = "human" ->
             Returned(Message("user", message.content))
      [] message.type = "ai" ->
             Returned([Message("assistant", message.content)
                          EXCEPT !.tool_calls = message.tool_calls])
      [] message.type = "tool" ->
             Returned([Message("tool", message.content)
                          EXCEPT !.tool_call_id = message.tool_call_id])
      [] OTHER -> Raised(InvalidType)

\* Message.from_langchain
from_langchain(message) ==
    LET content == IF message.content # ContentBlocks THEN message.content ELSE ""
    IN  CASE message.type = "system" -> Returned(Message("system", content))
          [] message.type = "human" -> Returned(Message("user", content))
          [] message.type = "ai" ->
                 Returned([Message("assistant", content)
                              EXCEPT !.tool_calls = message.tool_calls])
          [] message.type = "tool" ->
                 Returned([Message("tool", content)
                              EXCEPT !.tool_call_id = message.tool_call_id])
          [] OTHER -> Raised(InvalidType)

\* The Message values to_langchain is called on: the four roles and one
\* other, content a string or None, the optional fields set or None
BridgeMessages ==
    [role         : Roles \cup {"function"},
     content      : {"hi", "", None},
     tool_calls   : ToolCallLists \cup {None},
     tool_call_id : ToolCallIds \cup {None}]

\* The langchain messages from_langchain is called on: the four classes it
\* knows and two it does not, content a string or a list of blocks
LangChainMessages ==
    [type : {"system", "human", "chat", "function"},
     content : {"hi", "", ContentBlocks}]
    \cup [type : {"ai"}, content : {"hi", "", ContentBlocks},
          tool_calls : ToolCallLists]
    \cup [type : {"tool"}, content : {"hi", "", ContentBlocks},
          tool_call_id : ToolCallIds]

\* Nothing was returned yet
NoResult == [raised |-> "", value |-> NoRecord]

InitBridge ==
    /\ agent = NoAgent
    /\ storage = [key \in ConvKeys |-> NoRecord]
    /\ turns = 0
    /\ render_calls = 0
    /\ construct_calls = 0
    /\ agents_built = 0
    /\ init_failures = 0
    /\ asked = {}
    /\ last = NoTurn
    /\ chat_in = NoChatCall
    /\ chat_out = NoChatResult
    /\ transcript = [key \in ConvKeys |-> <<>>]
    /\ call \in [fn : {"to_langchain"}, arg : BridgeMessages, lenient : BOOLEAN,
                  done : {FALSE}, result : {NoResult},
                  back_done : {FALSE}, back : {NoResult}]
               \cup [fn : {"from_langchain"}, arg : LangChainMessages,
                     lenient : BOOLEAN, done : {FALSE}, result : {NoResult},
                     back_done : {FALSE}, back : {NoResult}]
    /\ tasks = NoTasks

\* m.to_langchain() is called on the argument, or on the Message that
\* from_langchain returned for it
ToLangChain ==
    /\ \/ /\ call.fn = "to_langchain" /\ ~call.done
          /\ call' = [call EXCEPT !.done = TRUE,
                                  !.result = to_langchain(call.arg, call.lenient)]
       \/ /\ call.fn = "from_langchain" /\ call.done /\ ~call.back_done
          /\ call.result.raised = ""
          /\ call' = [call EXCEPT !.back_done = TRUE,
                                  !.back = to_langchain(call.result.value,
                                                        call.lenient)]
    /\ UNCHANGED <<agent, storage, turns, render_calls, construct_calls,
                   agents_built, init_failures, asked, last, chat_in, chat_out,
                   transcript, tasks>>

\* Message.from_langchain(x) is called on the argument, or on the langchain
\* message that to_langchain returned for it
FromLangChain ==
    /\ \/ /\ call.fn = "from_langchain" /\ ~call.done
          /\ call' = [call EXCEPT !.done = TRUE,
                                  !.result = from_langchain(call.arg)]
       \/ /\ call.fn = "to_langchain" /\ call.done /\ ~call.back_done
          /\ call.result.raised = ""
          /\ call' = [call EXCEPT !.back_done = TRUE,
                                  !.back = from_langchain(call.result.value)]
    /\ UNCHANGED <<agent, storage, turns, render_calls, construct_calls,
                   agents_built, init_failures, asked, last, chat_in, chat_out,
                   transcript, tasks>>

NextBridge == ToLangChain \/ FromLangChain

SpecBridge == InitBridge /\ [][NextBridge]_vars

\* ------------------------------------------------ load as a function
\* Messages of a stored history
StoredMessages == {Message("user", "hi"), Message("assistant", "r1")}

\* What storage may hold under a conversation key: nothing, or a record with
\* some or all of the fields of the conversation state
StoredRecords ==
    {NoRecord}
    \cup [history : SeqsUpTo(StoredMessages, MaxHist)]
    \cup [lights_on : BOOLEAN]
    \cup [lights_on : BOOLEAN, history : SeqsUpTo(StoredMessages, MaxHist)]

InitLoad ==
    /\ agent = NoAgent
    /\ storage \in [ConvKeys -> StoredRecords]
    /\ turns = 0
    /\ render_calls = 0
    /\ construct_calls = 0
    /\ agents_built = 0
    /\ init_failures = 0
    /\ asked = {}
    /\ last = NoTurn
    /\ chat_in = NoChatCall
    /\ chat_out = NoChatResult
    /\ transcript = [key \in ConvKeys |-> <<>>]
    /\ call = [fn |-> "load", done |-> FALSE]
    /\ tasks = NoTasks

\* turn_state_factory: the turn state is loaded for a conversation key
LoadTurnState ==
    /\ call.fn = "load" /\ ~call.done
    /\ \E key \in ConvKeys :
          call' = [fn |-> "load", done |-> TRUE, key |-> key,
                   conversation |-> LoadConversationState(storage, key)]
    /\ UNCHANGED <<agent, storage, turns, render_calls, construct_calls,
                   agents_built, init_failures, asked, last, chat_in, chat_out,
                   transcript, tasks>>

NextLoad == LoadTurnState

SpecLoad == InitLoad /\ [][NextLoad]_vars

\* ---------------------------------------------------- overlapping turns
\* The turns that run on the one planner at the same time. A turn gives up
\* control at an await and another turn may run until it comes back.
Tasks == {"t1", "t2"}

\* A turn that has not arrived
NoTask == [pc |-> "start", conv |-> None, text |-> None,
           loaded |-> DefaultConversationState,
           history |-> <<>>, saw_none |-> FALSE, rendered |-> None,
           ag |-> NoAgent, plan |-> <<>>, sent |-> <<>>]

\* Variant of the end of _ensure_agent_initialized that looks at the agent
\* again after the awaits and keeps one that another turn has assigned
construct_agent_rechecked(ag, rendered, construct_ok) ==
    IF ag # NoAgent
    THEN [agent |-> ag, raised |-> FALSE, constructs |-> 0, built |-> 0]
    ELSE IF rendered = Raise
    THEN [agent |-> ag, raised |-> TRUE, constructs |-> 0, built |-> 0]
    ELSE IF ~construct_ok
    THEN [agent |-> ag, raised |-> TRUE, constructs |-> 1, built |-> 0]
    ELSE [agent |-> SimpleLangGraphAgent(rendered), raised |-> FALSE,
          constructs |-> 1, built |-> 1]

\* _ensure_agent_initialized from the return of render_as_text on: the
\* output is taken, the agent is constructed and assigned to self.agent,
\* whatever self.agent holds by now
construct_agent(ag, rendered, construct_ok) ==
    IF rendered = Raise
    THEN [agent |-> ag, raised |-> TRUE, constructs |-> 0, built |-> 0]
    ELSE IF ~construct_ok
    THEN [agent |-> ag, raised |-> TRUE, constructs |-> 1, built |-> 0]
    ELSE [agent |-> SimpleLangGraphAgent(rendered), raised |-> FALSE,
          constructs |-> 1, built |-> 1]

\* Variant of the step after the initialization that waits for something
\* that never comes instead of calling the model
call_agent_blocks(task, ag) ==
    [task EXCEPT !.pc = "blocked",
                 !.history = Append(@, Message("user", task.text)),
                 !.ag = ag]

\* Variant of the step after the initialization that starts the model call
\* and leaves the append of the user message for later
call_agent_append_later(task, ag) ==
    [task EXCEPT !.pc = "model", !.ag = ag]

\* begin_task / continue_task after the initialization: the user message is
\* appended and self.agent.chat is called, which awaits the model
call_agent(task, ag) ==
    [task EXCEPT !.pc = "model",
                 !.history = Append(@, Message("user", task.text)),
                 !.ag = ag]

\* The turn ends in the application's error handler
fail_turn(task) == [task EXCEPT !.pc = "failed", !.sent = on_error]

\* Variant of the save of the turn state that writes only when the stored
\* record is still the one the turn loaded
save_state_if_unchanged(store, key, loaded, conversation) ==
    IF LoadConversationState(store, key) = loaded
    THEN [store EXCEPT ![key] = conversation]
    ELSE store

\* The save of the turn state after the turn: the conversation state of the
\* turn is written under its key
save_state(store, key, loaded, conversation) ==
    [store EXCEPT ![key] = conversation]

InitConc ==
    /\ agent = NoAgent
    /\ storage = [key \in ConvKeys |-> NoRecord]
    /\ turns = 0
    /\ render_calls = 0
    /\ construct_calls = 0
    /\ agents_built = 0
    /\ init_failures = 0
    /\ asked = {}
    /\ last = NoTurn
    /\ chat_in = NoChatCall
    /\ chat_out = NoChatResult
    /\ transcript = [key \in ConvKeys |-> <<>>]
    /\ call = NoCall
    /\ tasks = [p \in Tasks |-> NoTask]

\* turn_state_factory: a turn arrives and its state is loaded from storage
LoadState(p) ==
    /\ tasks[p].pc = "start"
    /\ \E key \in ConvKeys, text \in Texts :
         \E st \in {LoadConversationState(storage, key)} :
          tasks' = [tasks EXCEPT ![p] =
                       [@ EXCEPT !.pc = "loaded", !.conv = key, !.text = text,
                                 !.loaded = st, !.history = st.history]]
    /\ UNCHANGED <<agent, storage, turns, render_calls, construct_calls,
                   agents_built, init_failures, asked, last, chat_in, chat_out,
                   transcript, call>>

\* begin_task / continue_task up to the first await: with an agent the user
\* message is appended and the model is called; without one the prompt
\* template is asked for
EnsureAgent(p) ==
    /\ tasks[p].pc = "loaded"
    /\ tasks' = [tasks EXCEPT ![p] =
                    IF agent # NoAgent THEN call_agent(@, agent)
                    ELSE [@ EXCEPT !.pc = "factory", !.saw_none = TRUE]]
    /\ UNCHANGED <<agent, storage, turns, render_calls, construct_calls,
                   agents_built, init_failures, asked, last, chat_in, chat_out,
                   transcript, call>>

\* The prompt factory returns: render_as_text is called on the template, or
\* the exception leaves the planner
FactoryReturns(p) ==
    /\ tasks[p].pc = "factory"
    /\ \E factory_ok \in BOOLEAN :
          /\ tasks' = [tasks EXCEPT ![p] =
                          IF factory_ok THEN [@ EXCEPT !.pc = "render"]
                          ELSE fail_turn(@)]
          /\ render_calls' = render_calls + (IF factory_ok THEN 1 ELSE 0)
          /\ init_failures' = init_failures + (IF factory_ok THEN 0 ELSE 1)
    /\ UNCHANGED <<agent, storage, turns, construct_calls, agents_built,
                   asked, last, chat_in, chat_out, transcript, call>>

\* render_as_text returns: the agent is constructed and assigned, the user
\* message is appended and the model is called; or the exception leaves the
\* planner
RenderReturns(p) ==
    /\ tasks[p].pc = "render"
    /\ \E rendered \in Prompts \cup {Raise}, construct_ok \in BOOLEAN :
         \E c \in {construct_agent(agent, rendered, construct_ok)} :
          /\ agent' = c.agent
          /\ construct_calls' = construct_calls + c.constructs
          /\ agents_built' = agents_built + c.built
          /\ init_failures' = init_failures + (IF c.raised THEN 1 ELSE 0)
          /\ tasks' = [tasks EXCEPT ![p] =
                          IF c.raised THEN fail_turn([@ EXCEPT !.rendered = rendered])
                          ELSE call_agent([@ EXCEPT !.rendered = rendered], c.agent)]
    /\ UNCHANGED <<storage, turns, render_calls, asked, last, chat_in,
                   chat_out, transcript, call>>

\* The model call returns or raises: _generate_response finishes and the
\* plan is returned
ModelReturns(p) ==
    /\ tasks[p].pc = "model"
    /\ \E llm \in LlmEnv :
         \E g \in {generate_response(tasks[p].ag, tasks[p].history,
                                     tasks[p].text, llm)} :
          tasks' = [tasks EXCEPT ![p] =
                       [@ EXCEPT !.pc = "planned", !.history = g.history,
                                 !.plan = g.plan]]
    /\ UNCHANGED <<agent, storage, turns, render_calls, construct_calls,
                   agents_built, init_failures, asked, last, chat_in, chat_out,
                   transcript, call>>

\* The plan is carried out and the turn state is saved
SaveState(p) ==
    /\ tasks[p].pc = "planned"
    /\ tasks' = [tasks EXCEPT ![p] =
                    [@ EXCEPT !.pc = "done", !.sent = RunCommands(tasks[p].plan)]]
    /\ storage' = save_state(storage, tasks[p].conv, tasks[p].loaded,
                             [tasks[p].loaded EXCEPT !.history = tasks[p].history])
    /\ UNCHANGED <<agent, turns, render_calls, construct_calls, agents_built,
                   init_failures, asked, last, chat_in, chat_out, transcript,
                   call>>

NextConc ==
    \E p \in Tasks :
        \/ LoadState(p)
        \/ EnsureAgent(p)
        \/ FactoryReturns(p)
        \/ RenderReturns(p)
        \/ ModelReturns(p)
        \/ SaveState(p)

SpecConc == InitConc /\ [][NextConc]_vars

\* Overlapping turns whose external calls all come back: a turn that has been
\* handed to the planner runs, and the prompt factory, the renderer and the
\* model each return or raise in the end
SpecConcFair ==
    /\ SpecConc
    /\ \A p \in Tasks :
          /\ WF_vars(EnsureAgent(p))
          /\ WF_vars(FactoryReturns(p))
          /\ WF_vars(RenderReturns(p))
          /\ WF_vars(ModelReturns(p))

\* ---------------------------------------- a planner call as a function
\* Contents of the user partition and of the turn-local partition
UserStates == {"user-a", "user-b"}
TempStates == {"temp-a", "temp-b"}

\* The turn states a planner call is made on: while there is no agent no
\* turn has been answered and the history is empty
TurnStates(ag) ==
    [conversation : [lights_on : BOOLEAN,
                     history : IF ag = NoAgent THEN {<<>>}
                               ELSE SeqsUpTo(StoredMessages, MaxHist)],
     user : UserStates,
     temp : TempStates]

\* Variant of the planner call that resets the lights flag of the conversation
run_task_resets_lights(op, ag, state, text, io, llm) ==
    LET After(r) ==
            [state |-> [state EXCEPT !.conversation =
                           [lights_on |-> FALSE, history |-> r.history]],
             r |-> r]
    IN  After(IF op = "begin_task"
              THEN begin_task(ag, state.conversation.history, text, io, llm)
              ELSE continue_task(ag, state.conversation.history, text, io, llm))

\* begin_task / continue_task on a turn state: state.conversation.history is
\* the only part of the state the planner writes
run_task(op, ag, state, text, io, llm) ==
    LET After(r) ==
            [state |-> [state EXCEPT !.conversation.history = r.history],
             r |-> r]
    IN  After(IF op = "begin_task"
              THEN begin_task(ag, state.conversation.history, text, io, llm)
              ELSE continue_task(ag, state.conversation.history, text, io, llm))

\* The planner states and turn states a call is made on
TaskCalls ==
    UNION {[fn : {"begin_task", "continue_task"}, ag : {ag},
            state : TurnStates(ag), text : Texts, done : {FALSE}] :
           ag \in {NoAgent} \cup {SimpleLangGraphAgent(p) : p \in Prompts}}

InitTask ==
    /\ agent = NoAgent
    /\ storage = [key \in ConvKeys |-> NoRecord]
    /\ turns = 0
    /\ render_calls = 0
    /\ construct_calls = 0
    /\ agents_built = 0
    /\ init_failures = 0
    /\ asked = {}
    /\ last = NoTurn
    /\ chat_in = NoChatCall
    /\ chat_out = NoChatResult
    /\ transcript = [key \in ConvKeys |-> <<>>]
    /\ call \in TaskCalls
    /\ tasks = NoTasks

\* planner.begin_task(context, state, ...) is called once on the turn state
CallBeginTask ==
    /\ call.fn = "begin_task" /\ ~call.done
    /\ \E env \in TurnEnv(call.ag) :
         \E out \in {run_task("begin_task", call.ag, call.state, call.text,
                               env.io, env.llm)} :
          call' = [fn |-> call.fn, ag |-> call.ag, state |-> call.state,
                   text |-> call.text, done |-> TRUE, after |-> out.state,
                   r |-> out.r]
    /\ UNCHANGED <<agent, storage, turns, render_calls, construct_calls,
                   agents_built, init_failures, asked, last, chat_in, chat_out,
                   transcript, tasks>>

\* planner.continue_task(context, state, ...) is called once on the turn state
CallContinueTask ==
    /\ call.fn = "continue_task" /\ ~call.done
    /\ \E env \in TurnEnv(call.ag) :
         \E out \in {run_task("continue_task", call.ag, call.state, call.text,
                               env.io, env.llm)} :
          call' = [fn |-> call.fn, ag |-> call.ag, state |-> call.state,
                   text |-> call.text, done |-> TRUE, after |-> out.state,
                   r |-> out.r]
    /\ UNCHANGED <<agent, storage, turns, render_calls, construct_calls,
                   agents_built, init_failures, asked, last, chat_in, chat_out,
                   transcript, tasks>>

NextTask == CallBeginTask \/ CallContinueTask

SpecTask == InitTask /\ [][NextTask]_vars

\* ---------------------------------------------------------- properties
\* A planner call has been made and recorded
Called == last.op # "none"

\* s is t followed by zero or more elements
IsPrefix(t, s) == Len(t) <= Len(s) /\ SubSeq(s, 1, Len(t)) = t

\* C1: when the model call of a begin_task or continue_task call succeeds with
\* reply text r, the history on return is the history before the call followed
\* by exactly the user message with the incoming text and the assistant message
\* with content r, and the plan's command carries an assistant message with
\* content r.
C1_SuccessAppendsUserThenReply ==
    (Called /\ last.reached /\ last.llm \in Replies) =>
        /\ ~last.raised
        /\ last.post = last.pre \o <<Message("user", last.text),
                                     Message("assistant", last.llm)>>
        /\ storage[last.conv].history = last.post
        /\ Len(last.plan) >= 1
        /\ last.plan[1].response.role = "assistant"
        /\ last.plan[1].response.content = last.llm

\* A successful call on a conversation that already has messages
C1_Witness ==
    /\ Called /\ last.reached /\ last.llm \in Replies
    /\ last.pre # <<>>
    /\ Len(last.post) = Len(last.pre) + 2

\* C2: when the model call raises, the call still returns a plan; its single
\* command's content is the apology text, and the history on return is the
\* history before the call plus the user message only.
C2_FailureReturnsApologyKeepsUserOnly ==
    (Called /\ last.reached /\ last.llm = Raise) =>
        /\ ~last.raised
        /\ Len(last.plan) = 1
        /\ last.plan[1].response.content = ApologyText
        /\ last.post = Append(last.pre, Message("user", last.text))
        /\ storage[last.conv].history = last.post

\* The model call raised on a conversation that already has messages
C2_Witness ==
    /\ Called /\ last.reached /\ last.llm = Raise
    /\ last.pre # <<>>
    /\ last.plan # <<>>

\* C3 as stated: after every call that returned a plan, whatever the outcome
\* of the model call, the last element of the history is an assistant message
\* that replies to the user message right before it.
C3_LastIsAlwaysReply ==
    (Called /\ ~last.raised) =>
        /\ Len(last.post) >= 2
        /\ last.post[Len(last.post)].role = "assistant"
        /\ last.post[Len(last.post) - 1] = Message("user", last.text)

\* C3 amended: after a call that returned a plan, the history ends with the
\* turn's user message followed by the assistant reply when the model call
\* succeeded, and with the turn's user message alone when it raised.
C3_LastIsReplyOnSuccessUserOnFailure ==
    (Called /\ ~last.raised) =>
        /\ last.post # <<>>
        /\ last.llm \in Replies =>
              /\ Len(last.post) >= 2
              /\ last.post[Len(last.post)] = Message("assistant", last.llm)
              /\ last.post[Len(last.post) - 1] = Message("user", last.text)
        /\ last.llm = Raise =>
              /\ last.post[Len(last.post)] = Message("user", last.text)
              /\ Len(last.post) = Len(last.pre) + 1

\* A plan was returned after the model call raised: the history ends with a
\* user message
C3_Witness ==
    /\ Called /\ ~last.raised /\ last.llm = Raise
    /\ last.post[Len(last.post)].role = "user"

\* C4: every plan returned, on the success path and on the failure path alike,
\* holds exactly one command, a SAY command carrying a message with role
\* assistant.
C4_PlanIsOneSayCommand ==
    (Called /\ last.reached) =>
        /\ ~last.raised
        /\ Len(last.plan) = 1
        /\ last.plan[1].type = "SAY"
        /\ last.plan[1].response.role = "assistant"

\* A plan of the failure path and, before it, a conversation with a reply
C4_Witness ==
    /\ Called /\ last.reached /\ last.gen = "fail"
    /\ Len(last.plan) = 1
    /\ \E i \in 1..Len(last.pre) : last.pre[i].role = "assistant"

\* C5: on one planner and over non-overlapping calls, initialization completes
\* at most once, and once the agent exists no later turn renders the prompt,
\* constructs an agent or changes the agent and its system instruction.
C5_InitializedAtMostOnce ==
    /\ [](agents_built <= 1)
    /\ [][agent # NoAgent =>
            /\ agent' = agent
            /\ render_calls' = render_calls
            /\ construct_calls' = construct_calls
            /\ agents_built' = agents_built]_vars

\* Two turns ran on a planner whose agent already existed, after one render
\* and one construction
C5_Witness ==
    /\ Called /\ last.agent_pre # NoAgent
    /\ turns >= 3
    /\ render_calls = 1 /\ construct_calls = 1 /\ agents_built = 1

\* C6: a turn that starts without an agent and whose prompt loading, rendering
\* or agent construction raises returns no plan, propagates the error and
\* leaves the planner without an agent; the turn after it loads, renders and
\* constructs again, and has an agent when these succeed.
C6_FailedInitIsRetried ==
    /\ []((Called /\ ~last.reached) =>
            /\ last.raised
            /\ last.plan = <<>>
            /\ agent = NoAgent)
    /\ [][(Called /\ last.raised /\ turns' = turns + 1) =>
            /\ last'.loads = 1
            /\ last'.reached =>
                  /\ last'.renders = 1 /\ last'.constructs = 1
                  /\ ~last'.raised
                  /\ agent' # NoAgent]_vars

\* A turn failed to initialize and the next one initialized the agent
C6_Witness ==
    /\ init_failures >= 1
    /\ Called /\ last.agent_pre = NoAgent /\ last.renders = 1
    /\ ~last.raised
    /\ agent # NoAgent

\* C7: each processed turn sends the user exactly one text: the model's reply
\* when generation succeeds, the apology when the model call raises, the
\* error notice of on_error when the error escapes the planner.
C7_OneTextPerTurn ==
    Called =>
        /\ Len(last.sent) = 1
        /\ (last.reached /\ last.llm \in Replies) => last.sent[1] = last.llm
        /\ (last.reached /\ last.llm = Raise) => last.sent[1] = ApologyText
        /\ ~last.reached => last.sent[1] = ErrorNotice

\* The three kinds of turn have all happened on one planner: the error notice
\* first, then a reply, then the apology
C7_Witness ==
    /\ init_failures >= 1
    /\ \E key \in ConvKeys : storage[key] # NoRecord /\
          \E i \in 1..Len(storage[key].history) :
              storage[key].history[i].role = "assistant"
    /\ Called /\ last.sent = <<ApologyText>>

\* Every element of a history in the external format of its role, in order
RECURSIVE AllConverted(_)
AllConverted(h) ==
    IF h = <<>> THEN <<>>
    ELSE <<[type |-> LangChainType(Head(h).role), content |-> Head(h).content]>>
         \o AllConverted(Tail(h))

\* The user and assistant elements of a history in the external format, in
\* order; the elements of the other roles left out
RECURSIVE UserAssistantConverted(_)
UserAssistantConverted(h) ==
    IF h = <<>> THEN <<>>
    ELSE (IF Head(h).role \in {"user", "assistant"}
          THEN <<[type |-> LangChainType(Head(h).role), content |-> Head(h).content]>>
          ELSE <<>>)
         \o UserAssistantConverted(Tail(h))

\* C8 as stated: the message sequence handed to the model is the conversion of
\* every element of history, in order and whatever its role, followed by one
\* user message with the new text; the value returned is the reply's content.
\* The sequence is taken as chat hands it to the graph, before _chat_node puts
\* the system instruction in front of it.
C8_ModelGetsWholeHistory ==
    chat_out.called =>
        /\ chat_out.out.messages =
              AllConverted(chat_in.history) \o <<HumanMessage(chat_in.message)>>
        /\ chat_out.llm \in Replies => chat_out.out.result = chat_out.llm

\* C8 amended: the graph input is the conversion of the user and assistant
\* elements of history, in order (system and tool elements are left out),
\* followed by one user message with the new text; the model is handed that
\* sequence, with the agent's system message put first when the sequence is
\* the new user message alone; the value returned is the reply's content.
C8_ModelGetsUserAssistantHistory ==
    chat_out.called =>
        LET expected == UserAssistantConverted(chat_in.history)
                        \o <<HumanMessage(chat_in.message)>>
        IN  /\ chat_out.out.messages = expected
            /\ chat_out.out.model_input =
                  IF Len(expected) = 1
                  THEN <<SystemMessage(chat_in.ag.system_prompt)>> \o expected
                  ELSE expected
            /\ chat_out.llm \in Replies =>
                  ~chat_out.out.raised /\ chat_out.out.result = chat_out.llm
            /\ chat_out.llm = Raise => chat_out.out.raised

\* chat was called on a history that mixes a system, a user and a tool message
\* and the model was handed the user message and the new one only
C8_Witness ==
    /\ chat_out.called
    /\ \E i, j \in 1..Len(chat_in.history) :
          /\ chat_in.history[i].role \in {"system", "tool"}
          /\ chat_in.history[j].role = "user"
    /\ Len(chat_out.out.model_input) = 2

\* C9: every turn that reaches generation makes exactly one model invocation,
\* also when the same message list was sent before and when the invocation
\* raises; a turn whose initialization fails makes none.
C9_OneModelCallPerTurn ==
    Called =>
        /\ last.reached => last.chat.calls = 1
        /\ ~last.reached => last.chat.calls = 0

\* A turn sent the model a message list that an earlier turn had sent, and
\* made its one call
C9_Witness ==
    /\ Called /\ last.reached
    /\ last.repeated
    /\ last.chat.calls = 1

\* C10: for every call, whatever its outcome, the history before the call is a
\* prefix of the history after it, and the stored history of the conversation
\* only ever grows by appended messages.
C10_HistoryAppendOnly ==
    /\ [](Called => IsPrefix(last.pre, last.post))
    /\ [][\A key \in ConvKeys :
            storage[key] # NoRecord =>
                /\ storage'[key] # NoRecord
                /\ IsPrefix(storage[key].history, storage'[key].history)]_vars

\* A call whose model call raised, on a conversation that already held
\* messages: they are kept in place and the user message follows them
C10_Witness ==
    /\ Called /\ last.gen = "fail"
    /\ Len(last.pre) >= 2
    /\ last.post # last.pre
    /\ SubSeq(last.post, 1, Len(last.pre)) = last.pre

\* The stored history of a conversation: empty while nothing is stored
StoredHistory(key) ==
    IF storage[key] = NoRecord THEN <<>> ELSE storage[key].history

\* The messages a sequence of processed turns leaves, turn after turn: the
\* user message of the turn, then its reply when the model call succeeded
RECURSIVE Chronicle(_)
Chronicle(ts) ==
    IF ts = <<>> THEN <<>>
    ELSE Chronicle(SubSeq(ts, 1, Len(ts) - 1))
         \o <<Message("user", ts[Len(ts)].text)>>
         \o (IF ts[Len(ts)].llm = Raise THEN <<>>
             ELSE <<Message("assistant", ts[Len(ts)].llm)>>)

\* C11: in every history produced by non-overlapping turns from an empty
\* history, the messages appear in the order the turns were processed, and
\* every assistant message is immediately preceded by a user message, the one
\* of its own turn.
C11_ChronologicalOrder ==
    \A key \in ConvKeys :
        /\ StoredHistory(key) = Chronicle(transcript[key])
        /\ \A i \in 1..Len(StoredHistory(key)) :
              StoredHistory(key)[i].role = "assistant" =>
                  /\ i > 1
                  /\ StoredHistory(key)[i - 1].role = "user"

\* A conversation of three turns, the second of which failed: its user
\* message stands between the first reply and the third user message
C11_Witness ==
    \E key \in ConvKeys :
        /\ Len(transcript[key]) = 3
        /\ transcript[key][1].llm # Raise
        /\ transcript[key][2].llm = Raise
        /\ transcript[key][3].llm # Raise
        /\ transcript[key][1].text # transcript[key][2].text
        /\ Len(StoredHistory(key)) = 5

\* C12: begin_task and continue_task are the same operation: from the same
\* planner state, conversation history, turn text and environment they give
\* the same plan or error, the same history and the same agent.
C12_BeginEqualsContinue ==
    \A key \in ConvKeys, text \in Texts, env \in TurnEnv(agent) :
        begin_task(agent, StoredHistory(key), text, env.io, env.llm)
            = continue_task(agent, StoredHistory(key), text, env.io, env.llm)

\* A turn routed to continue_task on a conversation that held messages ended
\* as begin_task ends from the same state
C12_Witness ==
    /\ Called /\ last.op = "continue_task"
    /\ Len(last.pre) >= 2
    /\ last.gen = "ok"
    /\ \E env \in TurnEnv(last.agent_pre) :
          /\ env.llm = last.llm
          /\ begin_task(last.agent_pre, last.pre, last.text, env.io, env.llm).history
                 = last.post

\* A Message whose optional fields are the ones its role carries: tool_calls
\* on an assistant message only, tool_call_id on a tool message only
CarriesOwnFields(m) ==
    /\ m.role # "assistant" => m.tool_calls = None
    /\ m.role # "tool" => m.tool_call_id = None
    /\ m.role = "tool" => m.tool_call_id # None

\* C13: for every Message with one of the four roles and a string content,
\* an assistant message without tool_calls and a tool message with its
\* tool_call_id included, to_langchain returns a message from which
\* from_langchain gives the Message back, field by field.
C13_RoundTrip ==
    (/\ call.fn = "to_langchain"
     /\ call.arg.role \in Roles
     /\ call.arg.content # None
     /\ CarriesOwnFields(call.arg))
    => /\ call.done => call.result.raised = ""
       /\ call.back_done => /\ call.back.raised = ""
                            /\ call.back.value = call.arg

\* C14: to_langchain returns a message, and does not raise, for every Message
\* whose role is one of the four, whatever its optional fields; for any other
\* role it raises the invalid-role error.
C14_ToLangChainRaisesOnlyOnRole ==
    (call.fn = "to_langchain" /\ call.done)
    => /\ call.arg.role \in Roles => call.result.raised = ""
       /\ call.arg.role \notin Roles => call.result.raised = InvalidRole

\* C15: from_langchain maps the system, human, ai and tool messages to the
\* roles system, user, assistant and tool; for any other message it raises
\* the invalid-type error; a content that is not a string becomes "".
C15_FromLangChain ==
    (call.fn = "from_langchain" /\ call.done)
    => /\ call.arg.type \in {"system", "human", "ai", "tool"} =>
             /\ call.result.raised = ""
             /\ call.result.value.role \in Roles
             /\ LangChainType(call.result.value.role) = call.arg.type
             /\ call.arg.content # ContentBlocks =>
                    call.result.value.content = call.arg.content
             /\ call.arg.content = ContentBlocks =>
                    call.result.value.content = ""
       /\ call.arg.type \notin {"system", "human", "ai", "tool"} =>
             call.result = Raised(InvalidType)

\* An ai message whose content is a list of blocks came back as an assistant
\* Message with the empty string as content and its tool calls
C15_Witness ==
    /\ call.fn = "from_langchain" /\ call.done
    /\ call.arg.type = "ai"
    /\ call.arg.content = ContentBlocks
    /\ call.result.value = [role |-> "assistant", content |-> "",
                            tool_calls |-> call.arg.tool_calls,
                            tool_call_id |-> None]

\* C16: loading the turn state for a conversation key with no stored record
\* gives an empty history and lights_on false; with a stored record it gives
\* the stored value of every field the record has and the default of every
\* field it lacks.
C16_LoadDefaults ==
    (call.fn = "load" /\ call.done)
    => /\ storage[call.key] = NoRecord =>
             /\ call.conversation.history = <<>>
             /\ call.conversation.lights_on = FALSE
       /\ storage[call.key] # NoRecord =>
             /\ "history" \in DOMAIN storage[call.key] =>
                    call.conversation.history = storage[call.key].history
             /\ "history" \notin DOMAIN storage[call.key] =>
                    call.conversation.history = <<>>
             /\ "lights_on" \in DOMAIN storage[call.key] =>
                    call.conversation.lights_on = storage[call.key].lights_on
             /\ "lights_on" \notin DOMAIN storage[call.key] =>
                    call.conversation.lights_on = FALSE

\* A record that holds a history of two messages and no lights_on was
\* loaded: the history is the stored one, lights_on the default
C16_Witness ==
    /\ call.fn = "load" /\ call.done
    /\ DOMAIN storage[call.key] = {"history"}
    /\ Len(storage[call.key].history) = 2
    /\ call.conversation = [lights_on |-> FALSE,
                            history |-> storage[call.key].history]

\* C17: every model invocation made by the initialized agent has the agent's
\* system prompt as the first message of the model input, on the first turn
\* of a conversation and on every later turn.
C17_SystemPromptFirst ==
    (Called /\ last.chat.calls > 0)
    => /\ Len(last.chat.model_input) >= 1
       /\ last.chat.model_input[1] = SystemMessage(agent.system_prompt)

\* The overlapping turns that found no agent and had their prompt rendered
RenderedTasks ==
    {p \in Tasks : tasks[p] # NoTask /\ tasks[p].saw_none
                                     /\ tasks[p].rendered \in Prompts}

\* C18: the initialization is not guarded against a race: every turn that
\* found no agent and had its prompt rendered goes on to construct an agent,
\* whatever the other turns have done meanwhile, so two turns that start
\* without an agent can both render and both construct.
C18_EveryRenderedTurnConstructs ==
    tasks # NoTasks =>
        /\ construct_calls = Cardinality(RenderedTasks)
        /\ agents_built <= construct_calls
        /\ construct_calls <= render_calls

\* Both turns found no agent, both rendered the prompt and both constructed
\* and assigned an agent
C18_Witness ==
    /\ tasks # NoTasks
    /\ \A p \in Tasks : tasks[p].saw_none /\ tasks[p].rendered \in Prompts
    /\ render_calls = 2
    /\ construct_calls = 2
    /\ agents_built = 2

\* C19: with overlapping turns the agent is written once: the first
\* initialization to complete is the one kept, and once the planner holds an
\* agent no other turn's initialization replaces it, so its system prompt
\* never changes.
C19_AgentWrittenOnce ==
    [][agent # NoAgent => agent' = agent]_vars

\* The history of an overlapping turn is the one it loaded followed by its
\* own messages only
OwnSnapshot(p) ==
    LET t == tasks[p]
        user == <<Message("user", t.text)>>
    IN  /\ t.pc \in {"start", "loaded", "factory", "render", "failed"} =>
              t.history = t.loaded.history
        /\ t.pc = "model" => t.history = t.loaded.history \o user
        /\ t.pc \in {"planned", "done"} =>
              \/ t.history = t.loaded.history \o user
              \/ \E reply \in Replies :
                    t.history = t.loaded.history \o user
                                    \o <<Message("assistant", reply)>>

\* C20: nothing protects the state of a conversation from overlapping turns:
\* each turn works on the history it loaded and its save puts that history
\* in the place of whatever is stored, so of two overlapping turns on one
\* conversation the stored history can end without the messages of one.
C20_NoMutualExclusion ==
    /\ [](tasks # NoTasks => \A p \in Tasks : OwnSnapshot(p))
    /\ [][tasks # NoTasks =>
            \A p \in Tasks :
                (tasks[p].pc = "planned" /\ tasks'[p].pc = "done") =>
                    storage'[tasks[p].conv].history = tasks[p].history]_vars

\* Two turns on one conversation overlapped, both were answered and both
\* saved, and the stored history holds the messages of one of them only
C20_Witness ==
    /\ tasks # NoTasks
    /\ \E p, q \in Tasks :
          /\ p # q
          /\ tasks[p].pc = "done" /\ tasks[q].pc = "done"
          /\ tasks[p].conv = tasks[q].conv
          /\ tasks[p].text # tasks[q].text
          /\ Len(tasks[p].history) = 2 /\ Len(tasks[q].history) = 2
          /\ storage[tasks[q].conv].history = tasks[q].history
          /\ \A i \in 1..Len(storage[tasks[q].conv].history) :
                storage[tasks[q].conv].history[i] # Message("user", tasks[p].text)

\* C21: within one turn the model invocation is the only point at which a
\* step of another turn can come in between: in particular the
\* initialization of the agent runs without yielding to other turns.
C21_OnlyModelCallYields ==
    [][tasks # NoTasks =>
         \A p, q \in Tasks :
            (p # q /\ tasks'[q] # tasks[q]) =>
                tasks[p].pc \notin {"factory", "render"}]_vars

\* C21, as the code has it: a turn waits, and lets other turns step, only at
\* its awaits, which are the prompt factory and the prompt rendering of the
\* initialization and the model call. A turn that waits in the
\* initialization has changed nothing yet; a turn that waits for the model
\* has appended its user message and called the agent in one step; the reply
\* is appended and the plan returned in the step in which the model returns.
C21_YieldsAtEveryAwait ==
    /\ [](tasks # NoTasks =>
            \A p \in Tasks :
                /\ tasks[p].pc \in {"factory", "render"} =>
                      /\ tasks[p].history = tasks[p].loaded.history
                      /\ tasks[p].ag = NoAgent
                /\ tasks[p].pc = "model" =>
                      /\ tasks[p].ag # NoAgent
                      /\ tasks[p].history = Append(tasks[p].loaded.history,
                                                   Message("user", tasks[p].text)))
    /\ [][tasks # NoTasks =>
            \A p \in Tasks :
                (tasks[p].pc = "model" /\ tasks'[p] # tasks[p]) =>
                    /\ tasks'[p].pc = "planned"
                    /\ Len(tasks'[p].plan) = 1
                    /\ \/ tasks'[p].history = tasks[p].history
                       \/ tasks'[p].history =
                             Append(tasks[p].history, tasks'[p].plan[1].response)]_vars

\* Both turns wait inside the initialization at the same time: one of them
\* stepped while the other was waiting for its prompt
C21_Witness ==
    /\ tasks # NoTasks
    /\ tasks["t1"].pc = "render"
    /\ tasks["t2"].pc \in {"factory", "render"}

\* C22: a turn that fails during the initialization of the agent leaves the
\* conversation history exactly as it was before the call: the user message
\* of the turn is not appended, no plan is produced and nothing is stored.
C22_InitFailureKeepsHistory ==
    (Called /\ last.raised)
    => /\ last.post = last.pre
       /\ last.gen = "none"
       /\ last.plan = <<>>
       /\ StoredHistory(last.conv) = last.pre
       /\ \A i \in 1..Len(StoredHistory(last.conv)) :
             StoredHistory(last.conv)[i] # Message("user", last.text)

\* A turn failed in the initialization after the prompt was rendered, on a
\* planner that had failed before, and its history is as it was loaded
C22_Witness ==
    /\ Called /\ last.raised
    /\ last.renders = 1
    /\ init_failures >= 2
    /\ last.post = last.pre
    /\ storage[last.conv] = NoRecord

\* The place of the user message of turn i in the history of a conversation
\* whose turns were ts
PlaceOfTurn(ts, i) == Len(Chronicle(SubSeq(ts, 1, i - 1))) + 1

\* C23: the user message of a turn whose model call failed stays in the
\* history without a reply and is part of the prior history of every later
\* turn: on the turn after a failed turn the model input ends with the failed
\* turn's user message followed by the new user message, and the history
\* then holds two user messages in a row.
C23_FailedUserMessageStays ==
    /\ \A key \in ConvKeys :
         \A i \in 1..Len(transcript[key]) :
            transcript[key][i].llm = Raise =>
               /\ Len(StoredHistory(key)) >= PlaceOfTurn(transcript[key], i)
               /\ StoredHistory(key)[PlaceOfTurn(transcript[key], i)]
                      = Message("user", transcript[key][i].text)
               /\ i < Len(transcript[key]) =>
                      /\ Len(StoredHistory(key)) > PlaceOfTurn(transcript[key], i)
                      /\ StoredHistory(key)[PlaceOfTurn(transcript[key], i) + 1]
                             = Message("user", transcript[key][i + 1].text)
    /\ (/\ Called /\ last.gen # "none"
        /\ Len(transcript[last.conv]) >= 2
        /\ transcript[last.conv][Len(transcript[last.conv]) - 1].llm = Raise)
       => LET failed == transcript[last.conv][Len(transcript[last.conv]) - 1]
              input == last.chat.model_input
          IN  /\ Len(input) >= 2
              /\ input[Len(input)] = HumanMessage(last.text)
              /\ input[Len(input) - 1] = HumanMessage(failed.text)
              /\ Len(last.pre) >= 1
              /\ last.pre[Len(last.pre)] = Message("user", failed.text)
              /\ Len(last.post) > Len(last.pre)
              /\ last.post[Len(last.pre) + 1] = Message("user", last.text)

\* A turn that was answered followed a turn of the same conversation whose
\* model call had failed: the model was given both user messages, the failed
\* one first, and the history holds them next to each other
C23_Witness ==
    /\ Called /\ last.gen = "ok"
    /\ Len(transcript[last.conv]) >= 2
    /\ transcript[last.conv][Len(transcript[last.conv]) - 1].llm = Raise
    /\ transcript[last.conv][Len(transcript[last.conv]) - 1].text # last.text
    /\ Len(last.pre) >= 1
    /\ last.post[Len(last.pre)].role = "user"
    /\ last.post[Len(last.pre) + 1].role = "user"
    /\ last.post[Len(last.pre) + 2].role = "assistant"

\* C24: begin_task and continue_task change nothing in the turn state but
\* conversation.history: lights_on, the user partition and the turn-local
\* partition are after the call what they were before it, on every outcome.
C24_OnlyHistoryChanges ==
    (call.fn \in {"begin_task", "continue_task"} /\ call.done)
    => /\ call.after.conversation.lights_on = call.state.conversation.lights_on
       /\ call.after.user = call.state.user
       /\ call.after.temp = call.state.temp
       /\ call.after = [call.state EXCEPT !.conversation.history = call.r.history]

\* A call on a conversation with the lights on was answered: the history grew
\* by two messages and everything else in the turn state is as before
C24_Witness ==
    /\ call.fn \in {"begin_task", "continue_task"} /\ call.done
    /\ call.state.conversation.lights_on
    /\ call.r.gen = "ok"
    /\ Len(call.after.conversation.history)
           = Len(call.state.conversation.history) + 2
    /\ call.after.conversation.lights_on
    /\ call.after.user = call.state.user
    /\ call.after.temp = call.state.temp

\* C25: provided every external call (prompt loading, prompt rendering,
\* model invocation) returns or raises in the end, every begin_task or
\* continue_task call ends, with exactly one of two outcomes: a plan is
\* returned or the initialization error leaves the planner. A turn that
\* waits for the model goes on only when the model call returns or raises:
\* no timeout ends the wait.
C25_EveryCallEnds ==
    /\ \A p \in Tasks :
          (tasks[p].pc = "loaded") ~> (tasks[p].pc \in {"planned", "failed"})
    /\ [](\A p \in Tasks :
            /\ tasks[p].pc \in {"planned", "done"} =>
                  Len(tasks[p].plan) = 1 /\ tasks[p].plan[1].type = "SAY"
            /\ tasks[p].pc = "failed" =>
                  tasks[p].plan = <<>> /\ tasks[p].ag = NoAgent)
    /\ [][\A p \in Tasks :
            tasks[p].pc = "model" => tasks'[p].pc \in {"model", "planned"}]_vars

\* Of two overlapping turns one ended with a returned plan after its model
\* call raised, the other with an initialization error
C25_Witness ==
    /\ tasks # NoTasks
    /\ \E p, q \in Tasks :
          /\ tasks[p].pc = "planned"
          /\ tasks[p].plan = <<PredictedSayCommand(Message("assistant", ApologyText))>>
          /\ tasks[q].pc = "failed"
          /\ tasks[q].rendered = Raise

\* C26: conversation histories are kept apart by conversation key: the
\* history a turn is given holds the messages of the earlier turns of its own
\* conversation and nothing else (the empty list on its first turn), and a
\* turn leaves the stored state of every other conversation as it is, though
\* all conversations share one planner and one agent.
C26_IsolatedByKey ==
    /\ []((Called /\ last.gen # "none") =>
            last.pre = Chronicle(SubSeq(transcript[last.conv], 1,
                                        Len(transcript[last.conv]) - 1)))
    /\ [][\A key \in ConvKeys :
            key # last'.conv => storage'[key] = storage[key]]_vars

\* Two conversations were served by the one agent, the second started after
\* the first had been answered, and neither history holds the user message of
\* the other
C26_Witness ==
    /\ agents_built = 1
    /\ Called /\ last.conv = "c2" /\ last.pre = <<>> /\ last.gen = "ok"
    /\ Len(StoredHistory("c1")) = 2
    /\ Len(StoredHistory("c2")) = 2
    /\ StoredHistory("c1")[1] # StoredHistory("c2")[1]
    /\ \A i \in 1..2 : /\ StoredHistory("c2")[i] # StoredHistory("c1")[1]
                        /\ StoredHistory("c1")[i] # StoredHistory("c2")[1]

\* C27: to_langchain maps each role to its own langchain class (system to
\* system, user to human, assistant to ai, tool to tool), uses the empty
\* string as content when the Message has none, and carries tool_calls
\* unchanged on the ai message and tool_call_id unchanged on the tool message.
C27_ToLangChainMapping ==
    (call.fn = "to_langchain" /\ call.done /\ call.arg.role \in Roles)
    => /\ call.result.raised = ""
       /\ call.result.value.type = LangChainType(call.arg.role)
       /\ call.result.value.content =
             (IF call.arg.content = None THEN "" ELSE call.arg.content)
       /\ call.arg.role = "assistant" =>
             call.result.value.tool_calls = call.arg.tool_calls
       /\ call.arg.role = "tool" =>
             call.result.value.tool_call_id = call.arg.tool_call_id

====
